---- MODULE Spec2Model ----
(***************************************************************************)
(* A model of the metrics-filtering reverse proxy of                       *)
(* go/internal/pkg/server/server.go: the three HTTP handlers ProxyHandle,  *)
(* MetricsFilter (JSON) and MetricsProtobufFilter (binary), the shared     *)
(* forwarder proxyRequest, the compression adapter and the sink call.      *)
(*                                                                         *)
(* Bodies are sequences of bytes (naturals below 256).  Strings that the   *)
(* code inspects character by character (metric names, the prefix) are     *)
(* sequences of bytes as well.                                             *)
(***************************************************************************)
EXTENDS Integers, Sequences, FiniteSets, TLC

\* ------------------------------------------------------------------------
\* Bounds of the model
\* ------------------------------------------------------------------------
\* largest number of top-level fields of a binary payload
MaxFields == 2
\* largest number of series records of a JSON payload
MaxSeries == 2

\* largest number of connections the server has at a time
MaxConns == 2

\* ------------------------------------------------------------------------
\* Program constants
\* ------------------------------------------------------------------------
metricsFilteredCountName == "proxy_filter.filtered_metrics.count"
maxHTTPResponseReadBytes == 64 * 1024
encodingGzip == "gzip"
encodingDeflate == "deflate"
metricSeries == 1
metricSeriesMetricName == 2

StatusInternalServerError == 500
StatusBadGateway == 502
StatusMovedPermanently == 301

\* protobuf wire types (molecule/src/codec)
WireVarint == 0
WireFixed64 == 1
WireBytes == 2
WireStartGroup == 3
WireEndGroup == 4
WireFixed32 == 5

\* ------------------------------------------------------------------------
\* Byte sequences
\* ------------------------------------------------------------------------
RECURSIVE SumBytes(_)
SumBytes(s) == IF s = <<>> THEN 0 ELSE Head(s) + SumBytes(Tail(s))

\* strings.HasPrefix(s, prefix)
HasPrefix(s, prefix) ==
  Len(s) >= Len(prefix) /\ SubSeq(s, 1, Len(prefix)) = prefix

\* ------------------------------------------------------------------------
\* Compression adapter.  A compressed stream is a two-byte magic header,
\* the payload and a one-byte checksum trailer; the reader checks the header
\* when it is constructed and the trailer when the payload has been read.
\* ------------------------------------------------------------------------
GzipMagic == <<31, 139>>
ZlibMagic == <<120, 156>>

Checksum(data) == SumBytes(data) % 256

Magic(enc) == IF enc = encodingGzip THEN GzipMagic ELSE ZlibMagic

\* gzip.NewWriter(buf) / zlib.NewWriter(buf), Write and Close
Compress(enc, data) == Magic(enc) \o data \o <<Checksum(data)>>

\* gzip.NewReader / zlib.NewReader: the header is read eagerly
NewReader(enc, body) ==
  IF Len(body) < 2 THEN [err |-> "unexpected EOF", enc |-> enc, src |-> body]
  ELSE IF SubSeq(body, 1, 2) # Magic(enc)
       THEN [err |-> "invalid header", enc |-> enc, src |-> body]
       ELSE [err |-> "", enc |-> enc, src |-> body]

\* Reading a reader to its end: the bytes it delivers and the error its last
\* Read reports ("" stands for io.EOF).
ReadStream(rc) ==
  IF rc.enc = "identity" THEN [data |-> rc.src, err |-> ""]
  ELSE IF Len(rc.src) < 3
       THEN [data |-> <<>>, err |-> "unexpected EOF"]
       ELSE LET data == SubSeq(rc.src, 3, Len(rc.src) - 1)
            IN  [data |-> data,
                 err |-> IF rc.src[Len(rc.src)] = Checksum(data)
                         THEN "" ELSE "invalid checksum"]

\* header value lookup: r.Header.Get(key) is the first value or ""
HeaderGet(header, key) ==
  IF header[key] = <<>> THEN "" ELSE Head(header[key])

\* a variant of the reader selection that ignores the case of the token
getReaderIgnoringCase(r) ==
  LET ce == HeaderGet(r.header, "Content-Encoding")
  IN  IF ce \in {encodingGzip, "GZIP"} THEN NewReader(encodingGzip, r.body)
      ELSE IF ce \in {encodingDeflate, "DEFLATE"}
      THEN NewReader(encodingDeflate, r.body)
      ELSE [err |-> "", enc |-> "identity", src |-> r.body]

getReaderFromRequest(r) ==
  LET ce == HeaderGet(r.header, "Content-Encoding")
  IN  IF ce = encodingGzip THEN NewReader(encodingGzip, r.body)
      ELSE IF ce = encodingDeflate THEN NewReader(encodingDeflate, r.body)
      ELSE [err |-> "", enc |-> "identity", src |-> r.body]

\* a variant of the writer that compresses with gzip whatever the encoding
getWriterAlwaysGzip(r, data) ==
  LET ce == HeaderGet(r.header, "Content-Encoding")
  IN  IF ce = encodingGzip THEN Compress(encodingGzip, data)
      ELSE IF ce = encodingDeflate THEN Compress(encodingGzip, data)
      ELSE data

\* getWriterForRequest followed by the writes and rw.Close(): the content of buf
getWriterForRequest(r, data) ==
  LET ce == HeaderGet(r.header, "Content-Encoding")
  IN  IF ce = encodingGzip THEN Compress(encodingGzip, data)
      ELSE IF ce = encodingDeflate THEN Compress(encodingDeflate, data)
      ELSE data

\* ------------------------------------------------------------------------
\* Binary wire codec (molecule.MessageEach, codec.Buffer, ProtoStream)
\* ------------------------------------------------------------------------
Pow2(n) == 2 ^ n

\* codec.Buffer.DecodeVarint from position i (1-based): little-endian base
\* 128 groups, the high bit of a byte says that another byte follows
RECURSIVE DecodeVarintFrom(_, _, _, _)
DecodeVarintFrom(buf, i, shift, acc) ==
  IF shift >= 70 THEN [err |-> "varint overflow", val |-> 0, next |-> i]
  ELSE IF i > Len(buf) THEN [err |-> "unexpected EOF", val |-> 0, next |-> i]
  ELSE IF buf[i] < 128
       THEN [err |-> "", val |-> acc + buf[i] * Pow2(shift), next |-> i + 1]
       ELSE DecodeVarintFrom(buf, i + 1, shift + 7,
                             acc + (buf[i] - 128) * Pow2(shift))

DecodeVarint(buf, i) == DecodeVarintFrom(buf, i, 0, 0)

\* ProtoStream.encodeVarintToScratch: the shortest encoding of v
RECURSIVE EncodeVarint(_)
EncodeVarint(v) ==
  IF v < 128 THEN <<v>> ELSE <<128 + (v % 128)>> \o EncodeVarint(v \div 128)

\* codec.Buffer.DecodeTagAndWireType
DecodeTagAndWireType(buf, i) ==
  LET v == DecodeVarint(buf, i)
  IN  [err |-> v.err, fieldNum |-> v.val \div 8, wireType |-> v.val % 8,
       next |-> v.next]

\* codec.Buffer.DecodeFixed32 / DecodeFixed64: n bytes are consumed; the
\* handler never reads the number, so only the position is kept
DecodeFixed(buf, i, n) ==
  IF i + n - 1 > Len(buf) THEN [err |-> "unexpected EOF", next |-> i]
  ELSE [err |-> "", next |-> i + n]

\* codec.Buffer.DecodeRawBytes(false): a varint length and that many bytes
DecodeRawBytes(buf, i) ==
  LET n == DecodeVarint(buf, i)
  IN  IF n.err # "" THEN [err |-> n.err, bytes |-> <<>>, next |-> i]
      ELSE IF n.next + n.val - 1 > Len(buf)
           THEN [err |-> "unexpected EOF", bytes |-> <<>>, next |-> i]
           ELSE [err |-> "", bytes |-> SubSeq(buf, n.next, n.next + n.val - 1),
                 next |-> n.next + n.val]

\* molecule.readValueFromBuffer: a Value holds Number for varint and fixed
\* width fields and Bytes for length-delimited fields, never both
readValueFromBuffer(wireType, buf, i) ==
  IF wireType = WireVarint THEN
    LET v == DecodeVarint(buf, i)
    IN  [err |-> v.err, WireType |-> wireType, Number |-> v.val,
         Bytes |-> <<>>, next |-> v.next]
  ELSE IF wireType = WireFixed32 THEN
    LET v == DecodeFixed(buf, i, 4)
    IN  [err |-> v.err, WireType |-> wireType, Number |-> 0,
         Bytes |-> <<>>, next |-> v.next]
  ELSE IF wireType = WireFixed64 THEN
    LET v == DecodeFixed(buf, i, 8)
    IN  [err |-> v.err, WireType |-> wireType, Number |-> 0,
         Bytes |-> <<>>, next |-> v.next]
  ELSE IF wireType = WireBytes THEN
    LET v == DecodeRawBytes(buf, i)
    IN  [err |-> v.err, WireType |-> wireType, Number |-> 0,
         Bytes |-> v.bytes, next |-> v.next]
  ELSE IF wireType \in {WireStartGroup, WireEndGroup} THEN
    [err |-> "groups not supported", WireType |-> wireType, Number |-> 0,
     Bytes |-> <<>>, next |-> i]
  ELSE
    [err |-> "unknown wireType", WireType |-> wireType, Number |-> 0,
     Bytes |-> <<>>, next |-> i]

\* ProtoStream.Bytes(fieldNumber, value): a zero-length value writes nothing,
\* any other value is written as key, length and bytes
psBytes(output, fieldNumber, value) ==
  IF Len(value) = 0 THEN output
  ELSE output \o EncodeVarint(fieldNumber * 8 + WireBytes)
              \o EncodeVarint(Len(value)) \o value

\* The nested molecule.MessageEach of MetricsProtobufFilter: the scan of one
\* series message for its metric name
RECURSIVE metricNameFrom(_, _)
metricNameFrom(mBuffer, i) ==
  IF i > Len(mBuffer) THEN [err |-> "", metricName |-> <<>>]
  ELSE LET t == DecodeTagAndWireType(mBuffer, i)
       IN  IF t.err # "" THEN [err |-> t.err, metricName |-> <<>>]
           ELSE LET v == readValueFromBuffer(t.wireType, mBuffer, t.next)
                IN  IF v.err # ""
                    THEN [err |-> "MessageEach: error reading value from buffer",
                          metricName |-> <<>>]
                    ELSE IF t.fieldNum = metricSeriesMetricName
                         THEN IF v.WireType # WireBytes
                              THEN [err |-> "value is not a string",
                                    metricName |-> <<>>]
                              ELSE [err |-> "", metricName |-> v.Bytes]
                         ELSE metricNameFrom(mBuffer, v.next)

\* The callback of the outer molecule.MessageEach for one field: the output
\* stream and the drop counter after it, or the error it returns
fieldCallback(fieldNum, value, prefix, output, dropCount) ==
  IF fieldNum = metricSeries THEN
    IF value.WireType # WireBytes
    THEN [err |-> "value is not bytes", output |-> output, dropCount |-> dropCount]
    ELSE LET m == metricNameFrom(value.Bytes, 1)
         IN  IF m.err # ""
             THEN [err |-> m.err, output |-> output, dropCount |-> dropCount]
             ELSE IF ~ HasPrefix(m.metricName, prefix)
                  THEN [err |-> "",
                        output |-> psBytes(output, fieldNum, value.Bytes),
                        dropCount |-> dropCount]
                  ELSE [err |-> "", output |-> output,
                        dropCount |-> dropCount + 1]
  ELSE [err |-> "", output |-> psBytes(output, fieldNum, value.Bytes),
        dropCount |-> dropCount]

\* The outer molecule.MessageEach of MetricsProtobufFilter over the buffered
\* body, from position i
RECURSIVE filterMessage(_, _, _, _, _)
filterMessage(all, i, prefix, output, dropCount) ==
  IF i > Len(all) THEN [err |-> "", output |-> output, dropCount |-> dropCount]
  ELSE LET t == DecodeTagAndWireType(all, i)
       IN  IF t.err # ""
           THEN [err |-> t.err, output |-> output, dropCount |-> dropCount]
           ELSE LET v == readValueFromBuffer(t.wireType, all, t.next)
                IN  IF v.err # ""
                    THEN [err |-> "MessageEach: error reading value from buffer",
                          output |-> output, dropCount |-> dropCount]
                    ELSE LET c == fieldCallback(t.fieldNum, v, prefix, output,
                                                dropCount)
                         IN  IF c.err # "" THEN c
                             ELSE filterMessage(all, v.next, prefix, c.output,
                                                c.dropCount)

\* ------------------------------------------------------------------------
\* JSON codec (encoding/json Decoder and Encoder over datadog.MetricsPayload).
\* A payload is an opening brace, its series records and a closing brace; a
\* record is its quoted metric name followed by one byte that stands for
\* the rest of the record.
\* ------------------------------------------------------------------------
LBrace == 123
RBrace == 125
Quote == 34
Newline == 10
RestBytes == {48, 49}

\* position of the first Quote at or after i, 0 when there is none
RECURSIVE FindQuote(_, _)
FindQuote(data, i) ==
  IF i > Len(data) THEN 0
  ELSE IF data[i] = Quote THEN i ELSE FindQuote(data, i + 1)

\* the error of a value that ends before it is complete: the error of the
\* stream when it has one, else io.ErrUnexpectedEOF
Incomplete(streamErr) ==
  IF streamErr # "" THEN streamErr ELSE "unexpected EOF"

RECURSIVE decodeSeries(_, _, _, _)
decodeSeries(data, i, streamErr, acc) ==
  IF i > Len(data) THEN [err |-> Incomplete(streamErr), Series |-> <<>>]
  ELSE IF data[i] = RBrace THEN [err |-> "", Series |-> acc]
  ELSE IF data[i] # Quote THEN [err |-> "invalid character", Series |-> <<>>]
  ELSE LET q == FindQuote(data, i + 1)
       IN  IF q = 0 \/ q + 1 > Len(data)
           THEN [err |-> Incomplete(streamErr), Series |-> <<>>]
           ELSE IF data[q + 1] \notin RestBytes
                THEN [err |-> "invalid character", Series |-> <<>>]
                ELSE decodeSeries(data, q + 2, streamErr,
                       Append(acc, [Metric |-> SubSeq(data, i + 1, q - 1),
                                    rest |-> data[q + 1]]))

\* json.NewDecoder(rc).Decode(&payload): the decoder reads the first complete
\* value of the stream and stops there; what follows the value, and an error
\* the stream reports after the value's bytes, are not looked at
jsonDecode(stream) ==
  IF stream.data = <<>>
  THEN [err |-> IF stream.err # "" THEN stream.err ELSE "EOF", Series |-> <<>>]
  ELSE IF stream.data[1] # LBrace
       THEN [err |-> "invalid character", Series |-> <<>>]
       ELSE decodeSeries(stream.data, 2, stream.err, <<>>)

encodeRecord(s) == <<Quote>> \o s.Metric \o <<Quote, s.rest>>

RECURSIVE encodeRecords(_)
encodeRecords(ss) ==
  IF ss = <<>> THEN <<>> ELSE encodeRecord(Head(ss)) \o encodeRecords(Tail(ss))

\* json.NewEncoder(rw).Encode(payload): the value and a newline
jsonEncode(payload) ==
  <<LBrace>> \o encodeRecords(payload.Series) \o <<RBrace, Newline>>

\* a variant of the loop that drops a record only when its name is the prefix
RECURSIVE filterSeriesByEquality(_, _)
filterSeriesByEquality(series, prefix) ==
  IF series = <<>> THEN <<>>
  ELSE IF Head(series).Metric # prefix
       THEN <<Head(series)>> \o filterSeriesByEquality(Tail(series), prefix)
       ELSE filterSeriesByEquality(Tail(series), prefix)

\* the loop of MetricsFilter over payload.Series
RECURSIVE filterSeries(_, _)
filterSeries(series, prefix) ==
  IF series = <<>> THEN <<>>
  ELSE IF ~ HasPrefix(Head(series).Metric, prefix)
       THEN <<Head(series)>> \o filterSeries(Tail(series), prefix)
       ELSE filterSeries(Tail(series), prefix)

\* ------------------------------------------------------------------------
\* State
\* ------------------------------------------------------------------------
VARIABLES
  flags,      \* main's flags json-filter and protobuf-filter
  mux,        \* the patterns registered with the http.ServeMux
  cfg,        \* Handler.cfg: BaseEndpoint, MetricsPrefixFilter, Tags
  pc,         \* "idle", "awaiting" (inside httpClient.Do), "done"
  handler,    \* the handler that serves the current request
  r,          \* the inbound request
  w,          \* the http.ResponseWriter of the current request
  statsd,     \* the calls of statsDClient.Count made for the current request
  backend,    \* the requests handed to httpClient.Do for the current request
  resp,       \* what httpClient.Do returned
  dropCount,  \* the handler's dropCount
  errKind,    \* the error branch the handler took, "" when none
  panicked,   \* the handler goroutine panicked
  bodyRead,   \* the number of bytes read from r.Body so far
  respBody,   \* resp.Body: its length, the bytes read, whether it is closed
  countErr,   \* the error statsDClient.Count returned, "" for nil or no call
  errorLog,   \* the klog.ErrorS calls made for the current request
  conns,      \* the connections of the http.Server, each with its handler
  sink,       \* the calls of statsDClient.Count, of all connections
  main,       \* main: where it is, its exit status
  late        \* the connections in flight when the shutdown deadline passed

\* what is fixed when the process has started
config == <<flags, mux, cfg>>

\* the request that is followed on its own
single ==
  <<pc, handler, r, w, statsd, backend, resp, dropCount, errKind, panicked,
    bodyRead, respBody, countErr, errorLog>>

\* the server process with its connections
server == <<conns, sink, main, late>>

vars ==
  <<flags, mux, cfg, pc, handler, r, w, statsd, backend, resp, dropCount,
    errKind, panicked, bodyRead, respBody, countErr, errorLog, conns, sink,
    main, late>>

\* ------------------------------------------------------------------------
\* URLs (net/url as used by the server and by http.NewRequestWithContext).
\* A path or a query is a sequence of one-character strings; an endpoint is
\* a one-element sequence that holds scheme and authority as one item.
\* ------------------------------------------------------------------------
\* the escapes %XX of the model's paths and the characters they stand for
Unhex == (<<"3", "F">> :> "?") @@ (<<"2", "5">> :> "%")

\* url.unescape in path mode, from position i
RECURSIVE unescape(_, _, _)
unescape(s, i, acc) ==
  IF i > Len(s) THEN [err |-> "", s |-> acc]
  ELSE IF s[i] # "%" THEN unescape(s, i + 1, Append(acc, s[i]))
  ELSE IF i + 2 > Len(s) \/ <<s[i + 1], s[i + 2]>> \notin DOMAIN Unhex
       THEN [err |-> "invalid URL escape", s |-> <<>>]
       ELSE unescape(s, i + 3, Append(acc, Unhex[<<s[i + 1], s[i + 2]>>]))

\* url.escape in path mode: "?" and "%" are escaped, "/" is not
RECURSIVE escape(_)
escape(s) ==
  IF s = <<>> THEN <<>>
  ELSE (IF Head(s) = "?" THEN <<"%", "3", "F">>
        ELSE IF Head(s) = "%" THEN <<"%", "2", "5">>
        ELSE <<Head(s)>>) \o escape(Tail(s))

\* URL.setPath: RawPath is kept only when it is not the default encoding
setPathTo(p, path) ==
  IF path.err # ""
  THEN [err |-> path.err, Path |-> <<>>, RawPath |-> <<>>]
  ELSE [err |-> "", Path |-> path.s,
        RawPath |-> IF escape(path.s) = p THEN <<>> ELSE p]

setPath(p) == setPathTo(p, unescape(p, 1, <<>>))

\* URL.EscapedPath: the path as it is written on the request line
EscapedPath(u) == IF u.RawPath # <<>> THEN u.RawPath ELSE escape(u.Path)

\* strings.Index(s, c) + 1, 0 when c does not occur
IndexOf(s, c) ==
  IF \E i \in 1..Len(s) : s[i] = c
  THEN CHOOSE i \in 1..Len(s) : s[i] = c /\ \A j \in 1..(i - 1) : s[j] # c
  ELSE 0

\* the endpoints that start with a scheme
HasScheme(endpoint) == endpoint = "http://127.0.0.1:8080"

\* url.Parse of endpoint followed by a path: the query starts at the first
\* "?"; without a scheme the colon of host:port is in the first path segment
NoURL == [Host |-> "", Path |-> <<>>, RawPath |-> <<>>, RawQuery |-> <<>>]

parsePath(endpoint, p, query) ==
  IF ~ HasScheme(endpoint)
  THEN [err |-> "first path segment in URL cannot contain colon",
        URL |-> NoURL]
  ELSE IF p.err # "" THEN [err |-> p.err, URL |-> NoURL]
  ELSE [err |-> "",
        URL |-> [Host |-> endpoint, Path |-> p.Path, RawPath |-> p.RawPath,
                 RawQuery |-> query]]

parseAt(rawURL, q) ==
  IF q = 0 THEN parsePath(Head(rawURL), setPath(Tail(rawURL)), <<>>)
  ELSE parsePath(Head(rawURL), setPath(SubSeq(rawURL, 2, q - 1)),
                 SubSeq(rawURL, q + 1, Len(rawURL)))

Parse(rawURL) == parseAt(rawURL, IndexOf(rawURL, "?"))

\* http.NewRequestWithContext(ctx, method, url, body); the method of an
\* inbound request is a valid token, the server has checked it
newRequest(method, u, body) ==
  [err |-> u.err, Method |-> method, URL |-> u.URL, Body |-> body]

NewRequestWithContext(method, url, body) ==
  newRequest(method, Parse(url), body)

\* the server's parse of the request target into r.URL
requestURL(p, rawQuery) ==
  [Path |-> p.Path, RawPath |-> p.RawPath, RawQuery |-> rawQuery]

ParseRequestURI(rawPath, rawQuery) == requestURL(setPath(rawPath), rawQuery)

\* cleanPath of net/http: repeated slashes are collapsed
RECURSIVE cleanPath(_)
cleanPath(p) ==
  IF p = <<>> THEN <<"/">>
  ELSE IF Len(p) = 1 THEN p
  ELSE IF p[1] = "/" /\ p[2] = "/" THEN cleanPath(Tail(p))
  ELSE <<Head(p)>> \o cleanPath(Tail(p))

\* ------------------------------------------------------------------------
\* Inputs: the requests the handlers are run on
\* ------------------------------------------------------------------------
SeqsUpTo(S, n) == UNION {[1..k -> S] : k \in 0..n}

HeaderNames == {"Content-Encoding", "X-Tag"}
NoHeader == [k \in HeaderNames |-> <<>>]

\* the configured prefix "ab", and metric names around it
PrefixAB == <<97, 98>>
NameA == <<97>>
NameAB == <<97, 98>>
NameABA == <<97, 98, 97>>
NameB == <<98>>

\* Top-level fields of a binary payload as the sender wrote them: the bytes
\* on the wire (raw), the field number (num), whether the field is a
\* well-formed series message and, for a series, the value of its first
\* nested field 2.
PBField(raw, num, series, name) ==
  [raw |-> raw, num |-> num, series |-> series, name |-> name]

SeriesAB == PBField(<<10, 4, 18, 2, 97, 98>>, 1, TRUE, NameAB)
SeriesA == PBField(<<10, 3, 18, 1, 97>>, 1, TRUE, NameA)
SeriesEmpty == PBField(<<10, 0>>, 1, TRUE, <<>>)
SeriesTwoNames == PBField(<<10, 7, 18, 1, 97, 18, 2, 97, 98>>, 1, TRUE, NameA)
SeriesLateName == PBField(<<10, 6, 24, 5, 18, 2, 97, 98>>, 1, TRUE, NameAB)
SeriesNoName == PBField(<<10, 2, 24, 5>>, 1, TRUE, <<>>)
OtherBytes == PBField(<<26, 2, 97, 98>>, 3, FALSE, <<>>)
OtherEmpty == PBField(<<26, 0>>, 3, FALSE, <<>>)
OtherVarint == PBField(<<24, 1>>, 3, FALSE, <<>>)
OtherFixed32 == PBField(<<37, 1, 0, 0, 0>>, 4, FALSE, <<>>)

WellFormedFields ==
  {SeriesAB, SeriesA, SeriesEmpty, SeriesTwoNames, SeriesLateName,
   SeriesNoName, OtherBytes, OtherEmpty, OtherVarint, OtherFixed32}

\* a field 1 that is not length-delimited, a series whose nested message is
\* cut short, and a field whose length prefix runs past the end of the body
BadSeriesVarint == PBField(<<8, 1>>, 1, FALSE, <<>>)
BadSeriesNested == PBField(<<10, 2, 18, 5>>, 1, FALSE, <<>>)
BadTruncated == PBField(<<26, 127, 97>>, 3, FALSE, <<>>)
MalformedFields == {BadSeriesVarint, BadSeriesNested, BadTruncated}

TopFields == WellFormedFields \cup MalformedFields

RECURSIVE RawOf(_)
RawOf(fields) ==
  IF fields = <<>> THEN <<>> ELSE Head(fields).raw \o RawOf(Tail(fields))

\* series records of a JSON payload as the sender wrote them
Records == [Metric : {NameA, NameAB, NameABA, NameB}, rest : {48}]
             \cup [Metric : {NameAB, NameB}, rest : {49}]

\* what the sender did to the serialized payload before framing it
Damage(data, damage) ==
  IF damage = "truncated" THEN SubSeq(data, 1, Len(data) - 1)
  ELSE IF damage = "trailing" THEN data \o <<33>>
  ELSE data

\* how the sender framed the payload
Frame(data, framing) ==
  IF framing = "gzip" THEN Compress(encodingGzip, data)
  ELSE IF framing = "zlib" THEN Compress(encodingDeflate, data)
  ELSE IF framing = "gzipBadSum"
       THEN GzipMagic \o data \o <<(Checksum(data) + 1) % 256>>
       ELSE data

\* declared Content-Encoding values and actual framing of the body
Envs ==
  { [ce |-> <<>>, framing |-> "plain"],
    [ce |-> <<"gzip">>, framing |-> "gzip"],
    [ce |-> <<"deflate">>, framing |-> "zlib"],
    [ce |-> <<"gzip">>, framing |-> "plain"],
    [ce |-> <<"deflate">>, framing |-> "gzip"],
    [ce |-> <<"gzip">>, framing |-> "gzipBadSum"],
    [ce |-> <<"br">>, framing |-> "plain"],
    [ce |-> <<>>, framing |-> "gzip"] }

\* the other header of the request, its method and its raw query
Variants ==
  { [xtag |-> <<"v1">>, method |-> "POST", query |-> <<>>],
    [xtag |-> <<"v1", "v2">>, method |-> "GET", query |-> <<"k", "=", "1">>] }

\* request paths as they are written on the request line
SeriesV1Path ==
  <<"/", "a", "p", "i", "/", "v", "1", "/", "s", "e", "r", "i", "e", "s">>
SeriesV2Path ==
  <<"/", "a", "p", "i", "/", "v", "2", "/", "s", "e", "r", "i", "e", "s">>
SomeTestPath ==
  <<"/", "s", "o", "m", "e", "/", "t", "e", "s", "t", "/", "p", "a", "t", "h">>
\* "/a%3Fb", an escaped question mark
EscapedQuestionPath == <<"/", "a", "%", "3", "F", "b">>
\* "/%25", an escaped percent sign
EscapedPercentPath == <<"/", "%", "2", "5">>
\* "//api/v1/series"
DoubleSlashPath == <<"/">> \o SeriesV1Path

OtherPaths ==
  {SomeTestPath, EscapedQuestionPath, EscapedPercentPath, DoubleSlashPath}

Request(kind, path, items, data, damage, env, v) ==
  [method |-> v.method,
   target |-> [path |-> path, query |-> v.query],
   URL |-> ParseRequestURI(path, v.query),
   header |-> [k \in HeaderNames |->
                 IF k = "Content-Encoding" THEN env.ce ELSE v.xtag],
   body |-> Frame(Damage(data, damage), env.framing),
   kind |-> kind, items |-> items, damage |-> damage,
   framing |-> env.framing]

\* the variant sent with the longest payloads
PlainVariant == [xtag |-> <<"v1">>, method |-> "POST", query |-> <<>>]

\* the variants a payload of n items, of max at most, is sent with
VariantsFor(n, max) == IF n < max THEN Variants ELSE {PlainVariant}

\* the headers and framings the longest payloads are sent with: a framing
\* that is what the header says
MatchedEnvs ==
  { [ce |-> <<>>, framing |-> "plain"],
    [ce |-> <<"gzip">>, framing |-> "gzip"],
    [ce |-> <<"deflate">>, framing |-> "zlib"] }

EnvsFor(n, max) == IF n < max THEN Envs ELSE MatchedEnvs

PBRequests ==
  UNION { { Request("pb", SeriesV2Path, fs, RawOf(fs), "none", env, v) :
              env \in EnvsFor(Len(fs), MaxFields),
              v \in VariantsFor(Len(fs), MaxFields) } :
          fs \in SeqsUpTo(TopFields, MaxFields) }

JSONRequests ==
  UNION { { Request("json", SeriesV1Path, ss,
                    <<LBrace>> \o encodeRecords(ss) \o <<RBrace>>, d, env, v) :
              d \in {"none", "truncated", "trailing"},
              env \in EnvsFor(Len(ss), MaxSeries),
              v \in VariantsFor(Len(ss), MaxSeries) } :
          ss \in SeqsUpTo(Records, MaxSeries) }

RawRequests ==
  { Request("raw", path, <<>>, data, "none", env, v) :
      path \in OtherPaths, data \in {<<>>, <<1, 2, 3>>}, env \in Envs,
      v \in Variants }

\* Content-Encoding values that are not one of the two tokens, or not only
\* one of them, with the framing of the body
TokenEnvs ==
  { [ce |-> <<"GZIP">>, framing |-> "plain"],
    [ce |-> <<"GZIP">>, framing |-> "gzip"],
    [ce |-> <<"gzip, deflate">>, framing |-> "plain"],
    [ce |-> <<"br", "gzip">>, framing |-> "plain"],
    [ce |-> <<"gzip", "br">>, framing |-> "gzip"] }

\* one payload of each filter route under these headers
TokenRequests ==
  LET ss == <<[Metric |-> NameAB, rest |-> 49], [Metric |-> NameA, rest |-> 48]>>
      fs == <<SeriesAB, SeriesA>>
  IN  { Request("json", SeriesV1Path, ss,
                <<LBrace>> \o encodeRecords(ss) \o <<RBrace>>, "none", env,
                PlainVariant) : env \in TokenEnvs }
      \cup { Request("pb", SeriesV2Path, fs, RawOf(fs), "none", env,
                     PlainVariant) : env \in TokenEnvs }

\* everything the server is sent
Requests == JSONRequests \cup PBRequests \cup RawRequests \cup TokenRequests

\* what the backend answers
Responses ==
  { [status |-> 200, header |-> NoHeader, body |-> <<>>],
    [status |-> 418, header |-> [NoHeader EXCEPT !["X-Tag"] = <<"r1">>],
     body |-> <<7>>],
    [status |-> 500,
     header |-> [NoHeader EXCEPT !["X-Tag"] = <<"r1", "r2">>,
                                 !["Content-Encoding"] = <<"gzip">>],
     body |-> <<7, 8>>] }

ConfiguredTags == <<"one", "two", "three">>

\* -base-endpoint: the default, and a host:port without a scheme
DefaultEndpoint == <<"http://127.0.0.1:8080">>
Endpoints == {DefaultEndpoint, <<"127.0.0.1:8080">>}

\* the command lines the process is started with: both filter routes with
\* every prefix and endpoint, and every combination of the two toggles
Configurations ==
  { [prefix |-> p, endpoint |-> e, json |-> TRUE, pb |-> TRUE] :
      p \in {<<>>, PrefixAB}, e \in Endpoints }
  \cup { [prefix |-> PrefixAB, endpoint |-> DefaultEndpoint, json |-> j,
          pb |-> b] : j \in BOOLEAN, b \in BOOLEAN }

\* ------------------------------------------------------------------------
\* Initial values of the per-request state
\* ------------------------------------------------------------------------
NewResponseWriter ==
  [status |-> 0, header |-> NoHeader, headerAtWrite |-> NoHeader,
   body |-> <<>>, errText |-> "", writeHeaderCalls |-> 0]

NoResponse == [kind |-> "none", status |-> 0, header |-> NoHeader, body |-> <<>>]

NoRequest ==
  [method |-> "", target |-> [path |-> <<>>, query |-> <<>>],
   URL |-> [Path |-> <<>>, RawPath |-> <<>>, RawQuery |-> <<>>],
   header |-> NoHeader, body |-> <<>>, kind |-> "raw",
   items |-> <<>>, damage |-> "none", framing |-> "plain"]

\* the state of a handler that has not done anything yet
Fresh ==
  [pc |-> "idle", w |-> NewResponseWriter, statsd |-> <<>>, backend |-> <<>>,
   dropCount |-> 0, errKind |-> "", panicked |-> FALSE, bodyRead |-> 0,
   errorLog |-> <<>>]

\* no response body
NoBody == [len |-> 0, read |-> 0, closed |-> FALSE, closeCalls |-> 0]

\* the handler after the construction of the decompressing reader, which
\* reads the two bytes of the stream header
AfterHeader(req) ==
  [Fresh EXCEPT !.bodyRead =
     IF HeaderGet(req.header, "Content-Encoding")
          \in {encodingGzip, encodingDeflate}
     THEN IF Len(req.body) < 2 THEN Len(req.body) ELSE 2
     ELSE 0]

\* the handler after ioutil.ReadAll(rc) or Decode(&payload): the decoder
\* reads ahead, nothing of the body is left behind the value it decoded
AfterBody(req) == [Fresh EXCEPT !.bodyRead = Len(req.body)]

\* ------------------------------------------------------------------------
\* Handler code
\* ------------------------------------------------------------------------
\* for key := range src { dst.Add(key, src.Get(key)) }
copyHeader(dst, src) ==
  [k \in HeaderNames |->
     IF src[k] = <<>> THEN dst[k] ELSE Append(dst[k], Head(src[k]))]

\* w.WriteHeader(code): the header map is fixed at this point; a second
\* call changes nothing of the response
WriteHeader(rw, code) ==
  IF rw.status # 0 THEN [rw EXCEPT !.writeHeaderCalls = @ + 1]
  ELSE [rw EXCEPT !.status = code, !.headerAtWrite = rw.header,
                  !.writeHeaderCalls = @ + 1]

\* the messages of the klog.ErrorS calls
ErrorMessage ==
  [read |-> "Could not read body", buffer |-> "Could not buffer body",
   parse |-> "Could not parse protobuf message",
   decode |-> "Could not decode json",
   transport |-> "Got an error doing http request"]

\* the errors statsDClient.Count returns: nil, or the failure of the write
CountResults == {"", "statsd: write failed"}

\* a variant of the error reply that answers 400
writeErrorAsBadRequest(st, kind, err) ==
  [st EXCEPT !.pc = "done", !.errKind = kind,
             !.errorLog = Append(@, [msg |-> ErrorMessage[kind], err |-> err]),
             !.w = [WriteHeader(st.w, 400) EXCEPT !.errText = err]]

\* klog.ErrorS(err, msg); w.WriteHeader(http.StatusInternalServerError);
\* fmt.Fprintf(w, "%v", err)
writeError(st, kind, err) ==
  [st EXCEPT !.pc = "done", !.errKind = kind,
             !.errorLog = Append(@, [msg |-> ErrorMessage[kind], err |-> err]),
             !.w = [WriteHeader(st.w, StatusInternalServerError)
                      EXCEPT !.errText = err]]

\* a variant of the sink call that skips a count of zero
logDropCountSkipsZero(st, count) ==
  IF count = 0 THEN [st EXCEPT !.dropCount = count]
  ELSE [st EXCEPT !.dropCount = count,
                  !.statsd = Append(st.statsd,
                               [name |-> metricsFilteredCountName,
                                value |-> count, tags |-> cfg.Tags,
                                rate |-> 1])]

\* h.statsDClient.Count(metricsFilteredCountName, dropCount, h.cfg.Tags, 1)
logDropCount(st, count) ==
  [st EXCEPT !.dropCount = count,
             !.statsd = Append(st.statsd,
                          [name |-> metricsFilteredCountName, value |-> count,
                           tags |-> cfg.Tags, rate |-> 1])]

\* proxyRequest from line 108 to the call of h.httpClient.Do, out is what
\* http.NewRequestWithContext returned
doRequest(st, req, out) ==
  IF out.err # ""
  THEN [st EXCEPT !.pc = "done", !.panicked = TRUE]
  ELSE [st EXCEPT !.pc = "awaiting",
                  !.backend =
                    Append(st.backend,
                      [method |-> out.Method,
                       url |-> [out.URL EXCEPT !.RawQuery = req.URL.RawQuery],
                       header |-> copyHeader(NoHeader, req.header),
                       body |-> out.Body])]

\* proxyRequest up to the call of h.httpClient.Do.  When the outbound request
\* cannot be constructed, req is nil and the assignment to req.URL.RawQuery
\* that precedes the error check panics.
proxyRequest(st, req, body) ==
  doRequest(st, req,
            NewRequestWithContext(req.method, cfg.BaseEndpoint \o req.URL.Path,
                                  body))

\* ProxyHandle
proxyHandle(req) == proxyRequest(Fresh, req, req.body)

\* a variant of MetricsFilter without the shortcut for an empty prefix
metricsFilterAlwaysDecodes(req) ==
  LET rc == getReaderFromRequest(req)
  IN  IF rc.err # "" THEN writeError(AfterHeader(req), "read", rc.err)
      ELSE
        LET payload == jsonDecode(ReadStream(rc))
        IN  IF payload.err # "" THEN writeError(AfterBody(req), "decode", payload.err)
            ELSE
              LET filteredSeries ==
                    filterSeries(payload.Series, cfg.MetricsPrefixFilter)
                  count == Len(payload.Series) - Len(filteredSeries)
                  buf == getWriterForRequest(req,
                           jsonEncode([Series |-> filteredSeries]))
              IN  proxyRequest(logDropCount(AfterBody(req), count), req, buf)

\* MetricsFilter
metricsFilter(req) ==
  IF cfg.MetricsPrefixFilter = <<>> THEN proxyRequest(Fresh, req, req.body)
  ELSE
    LET rc == getReaderFromRequest(req)
    IN  IF rc.err # "" THEN writeError(AfterHeader(req), "read", rc.err)
        ELSE
          LET payload == jsonDecode(ReadStream(rc))
          IN  IF payload.err # "" THEN writeError(AfterBody(req), "decode", payload.err)
              ELSE
                LET filteredSeries ==
                      filterSeries(payload.Series, cfg.MetricsPrefixFilter)
                    count == Len(payload.Series) - Len(filteredSeries)
                    buf == getWriterForRequest(req,
                             jsonEncode([Series |-> filteredSeries]))
                IN  proxyRequest(logDropCount(AfterBody(req), count), req, buf)

\* MetricsProtobufFilter
metricsProtobufFilter(req) ==
  IF cfg.MetricsPrefixFilter = <<>> THEN proxyRequest(Fresh, req, req.body)
  ELSE
    LET rc == getReaderFromRequest(req)
    IN  IF rc.err # "" THEN writeError(AfterHeader(req), "read", rc.err)
        ELSE
          LET all == ReadStream(rc)
          IN  IF all.err # "" THEN writeError(AfterBody(req), "buffer", all.err)
              ELSE
                LET f == filterMessage(all.data, 1, cfg.MetricsPrefixFilter,
                                       <<>>, 0)
                IN  IF f.err # "" THEN writeError(AfterBody(req), "parse", f.err)
                    ELSE proxyRequest(logDropCount(AfterBody(req), f.dropCount), req,
                                      getWriterForRequest(req, f.output))

\* what a handler does with a request up to httpClient.Do
Run(h, req) ==
  IF h = "MetricsFilter" THEN metricsFilter(req)
  ELSE IF h = "MetricsProtobufFilter" THEN metricsProtobufFilter(req)
  ELSE proxyHandle(req)

\* a variant of the reply that always answers 200
respondAlwaysOK(rw, rs) ==
  [WriteHeader([rw EXCEPT !.header = copyHeader(rw.header, rs.header)], 200)
     EXCEPT !.body = rs.body]

\* the rest of proxyRequest when httpClient.Do returned a response
respond(rw, rs) ==
  [WriteHeader([rw EXCEPT !.header = copyHeader(rw.header, rs.header)],
               rs.status)
     EXCEPT !.body = rs.body]

\* io.CopyN(ioutil.Discard, resp.Body, n): up to n of the unread bytes are read
copyN(rb, n) ==
  [rb EXCEPT !.read = IF rb.len - rb.read <= n THEN rb.len ELSE rb.read + n]

\* a variant of the deferred function that discards and does not close
discardWithoutClose(rb) == copyN(rb, maxHTTPResponseReadBytes)

\* resp.Body of a response of n bytes of which the handler has read k
Body(n, k) == [len |-> n, read |-> k, closed |-> FALSE, closeCalls |-> 0]

\* the deferred function of proxyRequest
discardAndClose(rb) ==
  [copyN(rb, maxHTTPResponseReadBytes) EXCEPT !.closed = TRUE,
                                               !.closeCalls = @ + 1]

\* a variant of the deferred function that leaves a body open when reading
\* it fails
closeAbortedLeaks(rb) == rb

\* the deferred function of proxyRequest when the request's context is
\* cancelled: io.CopyN fails at once and resp.Body.Close() is still called
closeAborted(rb) == [rb EXCEPT !.closed = TRUE, !.closeCalls = @ + 1]

\* the outbound body is r.Body itself
ForwardsInbound ==
  handler = "ProxyHandle" \/ cfg.MetricsPrefixFilter = <<>>

\* a variant of the transport error reply that answers 500
badGatewayAsInternalError(rw) == WriteHeader(rw, StatusInternalServerError)

\* the rest of proxyRequest when httpClient.Do returned an error
badGateway(rw) == WriteHeader(rw, StatusBadGateway)

\* ------------------------------------------------------------------------
\* Specification
\* ------------------------------------------------------------------------
\* http.NewServeMux and the HandleFunc calls of main
NewServeMux(f) ==
  (IF f.enableJsonFilter
   THEN {[pattern |-> SeriesV1Path, handler |-> "MetricsFilter"]} ELSE {})
  \cup (IF f.enableProtobufFilter
        THEN {[pattern |-> SeriesV2Path,
               handler |-> "MetricsProtobufFilter"]}
        ELSE {})
  \cup {[pattern |-> <<"/">>, handler |-> "ProxyHandle"]}

\* ServeMux.Handler: a path that is not clean is answered by the mux's own
\* redirect to the clean path; a pattern without a trailing slash matches
\* that path only, and "/" matches every path
ServeMuxHandler(m, req) ==
  IF cleanPath(req.URL.Path) # req.URL.Path THEN "Redirect"
  ELSE IF \E e \in m : e.pattern = req.URL.Path
       THEN (CHOOSE e \in m : e.pattern = req.URL.Path).handler
       ELSE (CHOOSE e \in m : e.pattern = <<"/">>).handler

\* http.RedirectHandler(cleaned, http.StatusMovedPermanently); the Location
\* header and the note in the body are left out
redirect(req) ==
  [Fresh EXCEPT !.pc = "done",
                !.w = WriteHeader(Fresh.w, StatusMovedPermanently)]

\* the connections of the server
Conns == 1..MaxConns

\* a connection without a request
IdleConn ==
  [stage |-> "idle", handler |-> "none", r |-> NoRequest, st |-> Fresh,
   resp |-> NoResponse]

Init ==
  /\ \E c \in Configurations :
       /\ flags = [enableJsonFilter |-> c.json, enableProtobufFilter |-> c.pb]
       /\ mux = NewServeMux(flags)
       /\ cfg = [BaseEndpoint |-> c.endpoint, MetricsPrefixFilter |-> c.prefix,
                 Tags |-> ConfiguredTags]
  /\ pc = "idle"
  /\ handler = "none"
  /\ r = NoRequest
  /\ w = NewResponseWriter
  /\ statsd = <<>>
  /\ backend = <<>>
  /\ resp = NoResponse
  /\ dropCount = 0
  /\ errKind = ""
  /\ panicked = FALSE
  /\ bodyRead = 0
  /\ respBody = NoBody
  /\ countErr = ""
  /\ errorLog = <<>>
  /\ conns = [i \in Conns |-> IdleConn]
  /\ sink = <<>>
  /\ main = [pc |-> "starting", exit |-> 0, listening |-> FALSE,
            signalled |-> FALSE, ctxDone |-> FALSE]
  /\ late = {}

\* the server hands a request to a handler, which runs until it returns or
\* blocks in httpClient.Do; the handler does not look at what
\* statsDClient.Count returned
Serve(h, req, st) ==
  /\ handler' = h
  /\ r' = req
  /\ pc' = st.pc
  /\ w' = st.w
  /\ statsd' = st.statsd
  /\ backend' = st.backend
  /\ dropCount' = st.dropCount
  /\ errKind' = st.errKind
  /\ panicked' = st.panicked
  /\ bodyRead' = st.bodyRead
  /\ errorLog' = st.errorLog
  /\ \E e \in (IF st.statsd = <<>> THEN {""} ELSE CountResults) : countErr' = e
  /\ resp' = NoResponse
  /\ respBody' = NoBody
  /\ UNCHANGED <<config, server>>

ProxyHandle ==
  /\ pc = "idle"
  /\ \E req \in Requests :
       /\ ServeMuxHandler(mux, req) = "ProxyHandle"
       /\ \E st \in {proxyHandle(req)} : Serve("ProxyHandle", req, st)

MetricsFilter ==
  /\ pc = "idle"
  /\ \E req \in Requests :
       /\ ServeMuxHandler(mux, req) = "MetricsFilter"
       /\ \E st \in {metricsFilter(req)} : Serve("MetricsFilter", req, st)

MetricsProtobufFilter ==
  /\ pc = "idle"
  /\ \E req \in Requests :
       /\ ServeMuxHandler(mux, req) = "MetricsProtobufFilter"
       /\ \E st \in {metricsProtobufFilter(req)} :
            Serve("MetricsProtobufFilter", req, st)

\* the mux answers a request whose path is not clean by itself
Redirect ==
  /\ pc = "idle"
  /\ \E req \in Requests :
       /\ ServeMuxHandler(mux, req) = "Redirect"
       /\ Serve("Redirect", req, redirect(req))

\* httpClient.Do returns a response, for which the transport has sent the
\* whole outbound body, and proxyRequest runs to its end: io.Copy reads the
\* response body to its end and the deferred function closes it
DoResponse ==
  /\ pc = "awaiting"
  /\ \E rs \in Responses :
       /\ resp' = [kind |-> "response", status |-> rs.status,
                   header |-> rs.header, body |-> rs.body]
       /\ w' = respond(w, rs)
       /\ respBody' = discardAndClose(Body(Len(rs.body), Len(rs.body)))
  /\ bodyRead' = IF ForwardsInbound THEN Len(r.body) ELSE bodyRead
  /\ pc' = "done"
  /\ UNCHANGED <<config, server, handler, r, statsd, backend, dropCount, errKind,
                 panicked, countErr, errorLog>>

\* httpClient.Do returns an error and proxyRequest returns; the transport
\* failed before it read the outbound body or after it had sent it
DoError ==
  /\ pc = "awaiting"
  /\ resp' = [NoResponse EXCEPT !.kind = "error"]
  /\ w' = badGateway(w)
  /\ errKind' = "transport"
  /\ \E n \in (IF ForwardsInbound THEN {0, Len(r.body)} ELSE {bodyRead}) :
       bodyRead' = n
  /\ pc' = "done"
  /\ errorLog' = Append(errorLog, [msg |-> ErrorMessage["transport"],
                                   err |-> "transport error"])
  /\ UNCHANGED <<config, server, handler, r, statsd, backend, dropCount, panicked,
                 respBody, countErr>>

\* the responses that race with a cancellation
LateResponses == {rs \in Responses : rs.status = 418 /\ rs.body # <<>>}

\* the inbound connection closes while httpClient.Do is in flight: net/http
\* cancels r.Context(), which the outbound request carries
Cancel ==
  /\ pc = "awaiting"
  /\ pc' = "cancelled"
  /\ UNCHANGED <<config, server, handler, r, w, statsd, backend, resp,
                 dropCount, errKind, panicked, bodyRead, respBody, countErr,
                 errorLog>>

\* httpClient.Do returns the context's error without waiting for the
\* backend, and proxyRequest returns as for any error of Do
DoCancelled ==
  /\ pc = "cancelled"
  /\ resp' = [NoResponse EXCEPT !.kind = "error"]
  /\ w' = badGateway(w)
  /\ errKind' = "transport"
  /\ \E n \in (IF ForwardsInbound THEN {0, Len(r.body)} ELSE {bodyRead}) :
       bodyRead' = n
  /\ pc' = "done"
  /\ errorLog' = Append(errorLog, [msg |-> ErrorMessage["transport"],
                                   err |-> "context canceled"])
  /\ UNCHANGED <<config, server, handler, r, statsd, backend, dropCount,
                 panicked, respBody, countErr>>

\* the response had arrived when the context was cancelled: Do returns it,
\* io.Copy fails after n bytes of the body and the deferred function runs;
\* its io.CopyN fails at once, or still reads what is left of the body when
\* the transport has not seen the cancellation yet
DoLateResponse ==
  /\ pc = "cancelled"
  /\ \E rs \in LateResponses :
       \E n \in 0..(Len(rs.body) - 1) :
         /\ resp' = [kind |-> "aborted", status |-> rs.status,
                     header |-> rs.header, body |-> rs.body]
         /\ w' = [respond(w, rs) EXCEPT !.body = SubSeq(rs.body, 1, n)]
         /\ \E rb \in {closeAborted(Body(Len(rs.body), n)),
                        discardAndClose(Body(Len(rs.body), n))} :
              respBody' = rb
  /\ bodyRead' = IF ForwardsInbound THEN Len(r.body) ELSE bodyRead
  /\ pc' = "done"
  /\ UNCHANGED <<config, server, handler, r, statsd, backend, dropCount,
                 errKind, panicked, countErr, errorLog>>

\* the handler has returned (or net/http has recovered its panic) and the
\* server is ready for the next request; nothing of the request is kept
Return ==
  /\ pc = "done"
  /\ pc' = "idle"
  /\ handler' = "none"
  /\ r' = NoRequest
  /\ w' = NewResponseWriter
  /\ statsd' = <<>>
  /\ backend' = <<>>
  /\ resp' = NoResponse
  /\ dropCount' = 0
  /\ errKind' = ""
  /\ panicked' = FALSE
  /\ bodyRead' = 0
  /\ respBody' = NoBody
  /\ countErr' = ""
  /\ errorLog' = <<>>
  /\ UNCHANGED <<config, server>>

Next ==
  \/ ProxyHandle
  \/ MetricsFilter
  \/ MetricsProtobufFilter
  \/ Redirect
  \/ DoResponse
  \/ DoError
  \/ Cancel
  \/ DoCancelled
  \/ DoLateResponse
  \/ Return

Spec == Init /\ [][Next]_vars

\* ------------------------------------------------------------------------
\* The server process: main starts the http.Server, which runs the handler
\* of every connection in its own goroutine, and shuts it down on the
\* interrupt signal.  A handler is followed through its steps: decoding and
\* filtering, the sink call, forwarding, the backend's answer.
\* ------------------------------------------------------------------------
\* the requests the connections carry
ServerVariant == [xtag |-> <<"v1">>, method |-> "POST", query |-> <<>>]

ServerRequests ==
  LET plain == [ce |-> <<>>, framing |-> "plain"]
      zlib == [ce |-> <<"deflate">>, framing |-> "zlib"]
      ss == <<[Metric |-> NameAB, rest |-> 49], [Metric |-> NameA, rest |-> 48]>>
      fs == <<SeriesAB, SeriesAB>>
      json == <<LBrace>> \o encodeRecords(ss) \o <<RBrace>>
  IN  { Request("json", SeriesV1Path, ss, json, "none", plain, ServerVariant),
        Request("json", SeriesV1Path, ss, json, "truncated", plain,
                ServerVariant),
        Request("pb", SeriesV2Path, fs, RawOf(fs), "none", zlib, ServerVariant),
        Request("raw", SomeTestPath, <<>>, <<1, 2, 3>>, "none", plain,
                ServerVariant) }

\* what the backend answers to the connections
ServerResponses == {rs \in Responses : rs.status = 418}

\* a variant of the sink call that takes the drop count from the first
\* connection, as if the counter were a field of the Handler
countCallOfFirstConn(cs, i) ==
  [name |-> metricsFilteredCountName, value |-> cs[1].st.dropCount,
   tags |-> cfg.Tags, rate |-> 1]

\* h.logDropCount(dropCount, r) of connection i: dropCount is a local
\* variable of the handler
countCall(cs, i) ==
  [name |-> metricsFilteredCountName, value |-> cs[i].st.dropCount,
   tags |-> cfg.Tags, rate |-> 1]

\* the process runs
Alive == main.pc # "exited"

\* hs.ListenAndServe() listens; once Shutdown has been called it returns
\* http.ErrServerClosed instead
Listen ==
  /\ main.pc = "starting"
  /\ main' = [main EXCEPT !.pc = "serving", !.listening = TRUE]
  /\ UNCHANGED <<config, single, conns, sink, late>>

\* hs.ListenAndServe() returns an error that is not http.ErrServerClosed
ListenFails ==
  /\ Alive
  /\ ~ main.listening
  /\ main' = [main EXCEPT !.pc = "exited", !.exit = -1]
  /\ UNCHANGED <<config, single, conns, sink, late>>

\* the server accepts a connection and reads a request from it
Accept(i) ==
  /\ main.pc = "serving"
  /\ conns[i].stage = "idle"
  /\ \E req \in ServerRequests :
       conns' = [conns EXCEPT ![i] =
                   [stage |-> "decoding",
                    handler |-> ServeMuxHandler(mux, req), r |-> req,
                    st |-> Fresh, resp |-> NoResponse]]
  /\ UNCHANGED <<config, single, sink, main, late>>

\* a variant of the handler that goes on to proxyRequest without the sink
\* call
decodedSkipsCount(c, end) ==
  IF end.pc = "done" /\ ~ end.panicked
  THEN [c EXCEPT !.stage = "done", !.st = end]
  ELSE [c EXCEPT !.stage = "forwarding"]

\* a handler up to h.logDropCount: an error reply when reading or decoding
\* fails, nothing when there is no prefix or no filter, otherwise the drop
\* count of the filtered payload; end is where the handler gets with the
\* request
decoded(c, end) ==
  IF end.pc = "done" /\ ~ end.panicked
  THEN [c EXCEPT !.stage = "done", !.st = end]
  ELSE IF end.statsd = <<>>
  THEN [c EXCEPT !.stage = "forwarding"]
  ELSE [c EXCEPT !.stage = "counting",
                 !.st = [Fresh EXCEPT !.dropCount = end.dropCount,
                                      !.bodyRead = end.bodyRead]]

\* the handler reads and filters the body, or has nothing to filter
Decode(i) ==
  /\ Alive
  /\ conns[i].stage = "decoding"
  /\ \E end \in {Run(conns[i].handler, conns[i].r)} :
       conns' = [conns EXCEPT ![i] = decoded(conns[i], end)]
  /\ UNCHANGED <<config, single, sink, main, late>>

\* the handler calls the sink
Count(i) ==
  /\ Alive
  /\ conns[i].stage = "counting"
  /\ \E call \in {countCall(conns, i)} :
       /\ sink' = Append(sink, [conn |-> i, call |-> call])
       /\ conns' = [conns EXCEPT ![i].stage = "forwarding",
                                 ![i].st.statsd = <<call>>]
  /\ UNCHANGED <<config, single, main, late>>

\* proxyRequest up to httpClient.Do in a handler that has made its sink
\* call; end is where the handler gets with the request
forward(c, end) ==
  [c EXCEPT !.stage = IF end.pc = "awaiting" THEN "awaiting" ELSE "done",
            !.st = [end EXCEPT !.statsd = c.st.statsd,
                               !.dropCount = c.st.dropCount]]

\* the handler builds the outbound request and calls httpClient.Do
Forward(i) ==
  /\ Alive
  /\ conns[i].stage = "forwarding"
  /\ \E end \in {Run(conns[i].handler, conns[i].r)} :
       conns' = [conns EXCEPT ![i] = forward(conns[i], end)]
  /\ UNCHANGED <<config, single, sink, main, late>>

\* httpClient.Do returns a response to the handler of connection i
Respond(i) ==
  /\ Alive
  /\ conns[i].stage = "awaiting"
  /\ \E rs \in ServerResponses :
       conns' = [conns EXCEPT
                   ![i].stage = "done",
                   ![i].st.pc = "done",
                   ![i].st.w = respond(conns[i].st.w, rs),
                   ![i].resp = [kind |-> "response", status |-> rs.status,
                                header |-> rs.header, body |-> rs.body]]
  /\ UNCHANGED <<config, single, sink, main, late>>

\* httpClient.Do returns an error to the handler of connection i
Fail(i) ==
  /\ Alive
  /\ conns[i].stage = "awaiting"
  /\ conns' = [conns EXCEPT
                 ![i].stage = "done",
                 ![i].st.pc = "done",
                 ![i].st.errKind = "transport",
                 ![i].st.w = badGateway(conns[i].st.w),
                 ![i].resp = [NoResponse EXCEPT !.kind = "error"]]
  /\ UNCHANGED <<config, single, sink, main, late>>

\* the handler has returned, the connection is idle again; the model keeps
\* nothing of a finished request
Finish(i) ==
  /\ Alive
  /\ conns[i].stage = "done"
  /\ conns' = [conns EXCEPT ![i] = IdleConn]
  /\ sink' = SelectSeq(sink, LAMBDA e : e.conn # i)
  /\ UNCHANGED <<config, single, main, late>>

\* the connections that carry a request
InFlight == {i \in Conns : conns[i].stage # "idle"}

\* the interrupt signal arrives: main leaves <-cs, starts the timer of ctx
\* and calls httpServer.Shutdown(ctx), which closes the listener
Interrupt ==
  /\ main.pc \in {"starting", "serving"}
  /\ main' = [main EXCEPT !.pc = "shutdown", !.signalled = TRUE]
  /\ UNCHANGED <<config, single, conns, sink, late>>

\* a variant of closeIdleConns that reports quiescence whatever the
\* connections do
closeIdleConnsAlways(cs) == TRUE

\* srv.closeIdleConns() of Shutdown: every connection is idle
closeIdleConns(cs) == \A i \in Conns : cs[i].stage = "idle"

\* Shutdown polls the connections: when they are all idle it returns nil
\* and main calls os.Exit(0), otherwise it waits for the poll timer or ctx
Poll ==
  /\ main.pc = "shutdown"
  /\ main' = IF closeIdleConns(conns)
             THEN [main EXCEPT !.pc = "exited", !.exit = 0]
             ELSE [main EXCEPT !.pc = "select"]
  /\ UNCHANGED <<config, single, conns, sink, late>>

\* the poll timer of Shutdown fires
PollTimer ==
  /\ main.pc = "select"
  /\ main' = [main EXCEPT !.pc = "shutdown"]
  /\ UNCHANGED <<config, single, conns, sink, late>>

\* the deadline of ctx passes, ten seconds after the signal; late keeps the
\* requests that are in flight at that moment
Deadline ==
  /\ Alive
  /\ main.signalled
  /\ ~ main.ctxDone
  /\ main' = [main EXCEPT !.ctxDone = TRUE]
  /\ late' = InFlight
  /\ UNCHANGED <<config, single, conns, sink>>

\* Shutdown takes <-ctx.Done() in its select and returns ctx.Err(): main
\* calls os.Exit(-2) and the requests still in flight are abandoned
ShutdownTimeout ==
  /\ main.pc = "select"
  /\ main.ctxDone
  /\ main' = [main EXCEPT !.pc = "exited", !.exit = -2]
  /\ UNCHANGED <<config, single, conns, sink, late>>

ServerNext ==
  \/ Listen
  \/ ListenFails
  \/ Interrupt
  \/ Poll
  \/ PollTimer
  \/ Deadline
  \/ ShutdownTimeout
  \/ \E i \in Conns :
       \/ Accept(i)
       \/ Decode(i)
       \/ Count(i)
       \/ Forward(i)
       \/ Respond(i)
       \/ Fail(i)
       \/ Finish(i)

\* the process run with both filter routes and a prefix
ServerInit ==
  /\ Init
  /\ flags = [enableJsonFilter |-> TRUE, enableProtobufFilter |-> TRUE]
  /\ cfg.MetricsPrefixFilter = PrefixAB

ServerSpec == ServerInit /\ [][ServerNext]_vars

\* the main goroutine runs and the timer of context.WithTimeout fires,
\* whatever the connections do; a select of Shutdown in which ctx.Done() is
\* ready again and again takes it in the end, since Go picks among the ready
\* cases of a select at random
ServerFairSpec ==
  /\ ServerSpec
  /\ WF_vars(Poll)
  /\ WF_vars(Deadline)
  /\ SF_vars(ShutdownTimeout)

\* ------------------------------------------------------------------------
\* Vocabulary of the properties, in terms of what the sender sent
\* ------------------------------------------------------------------------
FilterRoute == handler \in {"MetricsFilter", "MetricsProtobufFilter"}

Filtering == FilterRoute /\ cfg.MetricsPrefixFilter # <<>>

\* s starts with p
StartsWith(s, p) == \E k \in 0..Len(s) : SubSeq(s, 1, k) = p

\* the encoding a request declares: the first value of its Content-Encoding
\* header, if it has one
DeclaredEncoding(req) ==
  IF req.header["Content-Encoding"] = <<>> THEN <<>>
  ELSE <<Head(req.header["Content-Encoding"])>>

\* the body is framed the way its Content-Encoding says
FramingMatches(req) ==
  \/ DeclaredEncoding(req) = <<"gzip">> /\ req.framing = "gzip"
  \/ DeclaredEncoding(req) = <<"deflate">> /\ req.framing = "zlib"
  \/ DeclaredEncoding(req) \notin {<<"gzip">>, <<"deflate">>}
       /\ req.framing = "plain"

WellFormedJSON(req) ==
  req.kind = "json" /\ req.damage = "none" /\ FramingMatches(req)

WellFormedPB(req) ==
  /\ req.kind = "pb"
  /\ \A i \in 1..Len(req.items) : req.items[i] \in WellFormedFields
  /\ FramingMatches(req)

RetainedRecord(s) == ~ StartsWith(s.Metric, cfg.MetricsPrefixFilter)

\* the handler got past decoding
Decoded == errKind \notin {"read", "buffer", "parse", "decode"}

\* http.NewRequestWithContext succeeds for the request
urlOK(req) ==
  NewRequestWithContext(req.method, cfg.BaseEndpoint \o req.URL.Path,
                        <<>>).err = ""

\* ------------------------------------------------------------------------
\* Properties
\* ------------------------------------------------------------------------

\* C1: on the JSON filter route with a non-empty prefix and a well-formed
\* series collection S, the drop count is len(S) minus the number of records
\* whose name does not start with the prefix, and the body handed to the
\* backend is the encoding, in the request's own framing, of exactly those
\* records in their original order.
C1_JsonFilterRetainsExactly ==
  (handler = "MetricsFilter" /\ cfg.MetricsPrefixFilter # <<>>
     /\ WellFormedJSON(r))
  => LET kept == SelectSeq(r.items, RetainedRecord)
     IN  /\ dropCount = Len(r.items) - Len(kept)
         /\ urlOK(r) =>
              /\ Len(backend) = 1
              /\ backend[1].body =
                   Frame(<<LBrace>> \o encodeRecords(kept)
                           \o <<RBrace, Newline>>, r.framing)

C1_Witness ==
  /\ handler = "MetricsFilter" /\ cfg.MetricsPrefixFilter # <<>>
  /\ WellFormedJSON(r) /\ pc = "done" /\ resp.kind = "response"
  /\ r.framing = "gzip"
  /\ r.items = <<[Metric |-> NameAB, rest |-> 49], [Metric |-> NameA, rest |-> 48]>>
  /\ dropCount = 1

\* C2 (as claimed): on the binary filter route with a non-empty prefix, a
\* series field is written with its original bytes iff its metric name does
\* not start with the prefix, the written fields keep their order, and the
\* drop counter is the number of series fields not written.  Stated on
\* well-formed payloads that consist of series fields only, where it fixes
\* the whole output.
C2_SeriesEmittedIffNoPrefix ==
  (handler = "MetricsProtobufFilter" /\ cfg.MetricsPrefixFilter # <<>>
     /\ WellFormedPB(r) /\ urlOK(r)
     /\ \A i \in 1..Len(r.items) : r.items[i].series)
  => LET kept == SelectSeq(r.items,
                   LAMBDA f : ~ StartsWith(f.name, cfg.MetricsPrefixFilter))
     IN  /\ Len(backend) = 1
         /\ backend[1].body = Frame(RawOf(kept), r.framing)
         /\ dropCount = Len(r.items) - Len(kept)

\* C3 (as claimed): on the binary filter route every top-level field that is
\* not a series field is copied to the output byte for byte, whatever its
\* kind and length, and is never counted as dropped.  Stated on well-formed
\* payloads without series fields, where it fixes the whole output.
C3_OtherFieldsVerbatim ==
  (handler = "MetricsProtobufFilter" /\ cfg.MetricsPrefixFilter # <<>>
     /\ WellFormedPB(r) /\ urlOK(r)
     /\ \A i \in 1..Len(r.items) : r.items[i].num # metricSeries)
  => /\ Len(backend) = 1
     /\ backend[1].body = Frame(RawOf(r.items), r.framing)
     /\ dropCount = 0

\* C4: with an empty prefix both filter routes do what ProxyHandle does with
\* the same request: the original body is handed to the forwarder unchanged,
\* nothing is decoded, the sink is not called, and no status 500 is produced
\* locally, whatever the body is.
C4_EmptyPrefixIsPassthrough ==
  (FilterRoute /\ cfg.MetricsPrefixFilter = <<>>)
  => /\ backend = proxyHandle(r).backend
     /\ panicked = proxyHandle(r).panicked
     /\ statsd = <<>>
     /\ Decoded /\ w.errText = ""
     /\ \A i \in 1..Len(backend) : backend[i].body = r.body
     /\ urlOK(r) => Len(backend) = 1
     /\ w.status = StatusInternalServerError
          => resp.kind = "response" /\ resp.status = StatusInternalServerError

C4_Witness ==
  /\ handler = "MetricsFilter" /\ cfg.MetricsPrefixFilter = <<>>
  /\ r.damage = "truncated" /\ ~ FramingMatches(r)
  /\ pc = "done" /\ resp.kind = "response" /\ w.status = 418
  /\ backend[1].body = r.body

\* the number of items the prefix selects
Matching(items, Name(_)) ==
  Cardinality({i \in 1..Len(items) :
                 StartsWith(Name(items[i]), cfg.MetricsPrefixFilter)})

ExpectedDrops(req) ==
  IF req.kind = "json" THEN Matching(req.items, LAMBDA s : s.Metric)
  ELSE Cardinality({i \in 1..Len(req.items) :
         /\ req.items[i].series
         /\ StartsWith(req.items[i].name, cfg.MetricsPrefixFilter)})

\* C5: a filter route with a non-empty prefix calls the sink's Count exactly
\* once when the body was decoded, with the fixed name, the request's drop
\* count, the configured tags and rate 1; with an empty prefix, and on the
\* passthrough route, the sink is never called.
C5_DropCountEmittedOnce ==
  /\ (Filtering /\ Decoded)
       => /\ statsd = <<[name |-> metricsFilteredCountName,
                         value |-> dropCount, tags |-> ConfiguredTags,
                         rate |-> 1]>>
          /\ (WellFormedJSON(r) \/ WellFormedPB(r))
               => dropCount = ExpectedDrops(r)
  /\ ~ Filtering => statsd = <<>>

C5_Witness ==
  /\ Filtering /\ handler = "MetricsProtobufFilter" /\ WellFormedPB(r)
  /\ pc = "done" /\ Len(statsd) = 1 /\ statsd[1].value = 2

\* C6 (as claimed): every value of every inbound header, duplicates
\* included, is on the outbound request.
C6_RequestHeadersPreserved ==
  \A i \in 1..Len(backend) :
    \A k \in HeaderNames : backend[i].header[k] = r.header[k]

\* C7 (as claimed): when the backend returned a response, every value of
\* every response header is on the caller's response, set before the status
\* code is written.
C7_ResponseHeadersPreserved ==
  (pc = "done" /\ resp.kind = "response")
  => \A k \in HeaderNames : w.headerAtWrite[k] = resp.header[k]

\* C8: when httpClient.Do returned a response, the status written to the
\* caller is the status of that response, on every route.
C8_StatusPassthrough ==
  (pc = "done" /\ resp.kind = "response") => w.status = resp.status

C8_Witness ==
  /\ pc = "done" /\ resp.kind = "response" /\ Filtering
  /\ handler = "MetricsProtobufFilter" /\ dropCount = 1
  /\ resp.status = StatusInternalServerError
  /\ w.status = StatusInternalServerError

\* the body is not what its Content-Encoding header says
HeaderMismatch(req) ==
  \/ DeclaredEncoding(req) = <<"gzip">>
       /\ req.framing \notin {"gzip", "gzipBadSum"}
  \/ DeclaredEncoding(req) = <<"deflate">> /\ req.framing # "zlib"

\* the body is compressed and the header does not say so
UndeclaredCompression(req) ==
  DeclaredEncoding(req) \notin {<<"gzip">>, <<"deflate">>}
    /\ req.framing # "plain"

\* what was sent cannot be decoded: the framing contradicts the header, the
\* JSON value is cut short, or the binary data holds a malformed field or
\* sits in a compressed stream whose trailer is wrong
Undecodable(req) ==
  \/ HeaderMismatch(req)
  \/ UndeclaredCompression(req)
  \/ req.kind = "json" /\ req.damage = "truncated"
  \/ req.kind = "pb"
       /\ \/ \E i \in 1..Len(req.items) : req.items[i] \in MalformedFields
          \/ req.framing = "gzipBadSum"

C10_TransportErrorIs502 ==
  (pc = "done" /\ resp.kind = "error")
  => /\ w.status = StatusBadGateway
     /\ Len(backend) = 1
     /\ errKind = "transport"

C10_Witness ==
  /\ pc = "done" /\ resp.kind = "error" /\ Filtering /\ dropCount = 1
  /\ w.status = StatusBadGateway

\* the handler reached proxyRequest and the outbound request could not be
\* constructed
ConstructionFailed ==
  /\ handler # "none" /\ ~ urlOK(r)
  /\ ~ Filtering \/ Decoded

\* C11 (as claimed): when http.NewRequestWithContext fails, the caller gets
\* status 500 with the error text, the backend is not contacted and the
\* handler returns normally.
C11_ConstructionFailureIs500 ==
  ConstructionFailed
  => /\ pc = "done"
     /\ w.status = StatusInternalServerError /\ w.errText # ""
     /\ backend = <<>> /\ resp.kind = "none"
     /\ ~ panicked

\* the same request sent without compression
Uncompressed(req) ==
  [req EXCEPT !.header = [@ EXCEPT !["Content-Encoding"] = <<>>],
              !.body = ReadStream(getReaderFromRequest(req)).data]

\* C12: on a filter route with a non-empty prefix, when the body was decoded
\* and handed to the backend: for Content-Encoding gzip or deflate the
\* outbound body is a stream of that same encoding (the one the inbound body
\* was read with) that decompresses without error to the filtered payload,
\* which is the outbound body of the same request sent uncompressed; for any
\* other or no Content-Encoding the outbound body is that payload itself.
C12_CompressionTransparency ==
  (Filtering /\ Decoded /\ urlOK(r))
  => LET E == HeaderGet(r.header, "Content-Encoding")
         plain == Run(handler, Uncompressed(r)).backend
     IN  /\ Len(backend) = 1 /\ Len(plain) = 1
         /\ IF E \in {encodingGzip, encodingDeflate}
            THEN LET rc == NewReader(E, backend[1].body)
                 IN  /\ rc.err = ""
                     /\ ReadStream(rc) = [data |-> plain[1].body, err |-> ""]
                     /\ SubSeq(backend[1].body, 1, 2) = SubSeq(r.body, 1, 2)
            ELSE backend[1].body = plain[1].body

C12_Witness ==
  /\ Filtering /\ handler = "MetricsProtobufFilter" /\ pc = "done"
  /\ DeclaredEncoding(r) = <<"deflate">> /\ r.framing = "zlib"
  /\ dropCount = 1 /\ resp.kind = "response"
  /\ Len(backend[1].body) > 3
  /\ SubSeq(backend[1].body, 1, 2) = ZlibMagic

\* C13 (as claimed): on every route the outbound request goes to BaseEndpoint
\* followed by the inbound path as it was sent, with the inbound method and
\* the inbound raw query; on the passthrough route the body handed to the
\* backend is the inbound body and the body written to the caller is the
\* backend's response body.
C13_OutboundTargetIsInbound ==
  /\ \A i \in 1..Len(backend) :
       /\ backend[i].method = r.method
       /\ <<backend[i].url.Host>> = cfg.BaseEndpoint
       /\ EscapedPath(backend[i].url) = r.target.path
       /\ backend[i].url.RawQuery = r.target.query
       /\ handler = "ProxyHandle" => backend[i].body = r.body
  /\ (handler = "ProxyHandle" /\ pc = "done" /\ resp.kind = "response")
       => w.body = resp.body

\* a handler has run to its end
Handled == pc = "done" /\ handler \in {"ProxyHandle", "MetricsFilter",
                                        "MetricsProtobufFilter"}

\* C14 (as claimed): on every path through a handler, the error paths
\* included, when the handler is done the inbound body has been read to its
\* end, and the backend's response body, when a response was obtained, has
\* been read to its end and closed.
C14_DrainDiscipline ==
  Handled
  => /\ bodyRead = Len(r.body)
     /\ resp.kind = "response"
          => respBody.read = Len(resp.body) /\ respBody.closed

\* C15 (as claimed): when statsDClient.Count returns an error, the failure is
\* logged, and the request goes on as if the call had succeeded: the same
\* body is forwarded and the caller gets the backend's answer.
C15_SinkFailureLoggedAndIgnored ==
  (Handled /\ countErr # "")
  => /\ \E i \in 1..Len(errorLog) : errorLog[i].err = countErr
     /\ backend = Run(handler, r).backend
     /\ w.errText = ""
     /\ resp.kind = "response" => w.status = resp.status
     /\ resp.kind = "error" => w.status = StatusBadGateway

\* the sink calls of connection i, in the order they were made
SinkCallsOf(i) ==
  LET mine == SelectSeq(sink, LAMBDA e : e.conn = i)
  IN  [k \in 1..Len(mine) |-> mine[k].call]

\* what the caller of request req gets when the request is handled alone and
\* the backend answers rs
AloneWriter(h, req, rs) ==
  LET end == Run(h, req)
  IN  IF end.pc = "done" THEN end.w
      ELSE IF rs.kind = "response"
      THEN respond(end.w, [status |-> rs.status, header |-> rs.header,
                           body |-> rs.body])
      ELSE badGateway(end.w)

\* one step of the server touches the request of one connection at most
OneConnPerStep ==
  \A i, j \in Conns : (i # j /\ conns'[i] # conns[i]) => conns'[j] = conns[j]

\* C16: whatever the interleaving of the connections, a request that has been
\* handled had the outbound request, the sink calls and the answer it has
\* when handled alone; a step of one handler leaves the requests of the other
\* connections as they were, and the configuration never changes.
C16_RequestIndependence ==
  /\ [](\A i \in Conns :
          conns[i].stage = "done"
          => /\ conns[i].st.backend = Run(conns[i].handler, conns[i].r).backend
             /\ SinkCallsOf(i) = Run(conns[i].handler, conns[i].r).statsd
             /\ conns[i].st.w = AloneWriter(conns[i].handler, conns[i].r,
                                            conns[i].resp))
  /\ [][OneConnPerStep /\ config' = config]_vars

C16_Witness ==
  /\ conns[1].stage = "done" /\ conns[2].stage = "done"
  /\ conns[1].st.dropCount = 1 /\ conns[2].st.dropCount = 2
  /\ conns[1].handler # conns[2].handler
  /\ Len(sink) = 2 /\ sink[1].conn = 2
  /\ conns[1].resp.kind = "response" /\ conns[2].resp.kind = "error"

\* the process served, got the signal and has exited
ExitedAfterSignal == main.pc = "exited" /\ main.signalled /\ main.listening

\* C17 (as claimed): a process that exits after the signal exits with status
\* 0 exactly when every request in flight completed within the grace
\* period, and with a non-zero status exactly when some request did not.
C17_ExitStatusTellsCompletion ==
  ExitedAfterSignal => (main.exit = 0 <=> late = {})

\* after the signal no connection takes up a request
NoAcceptAfterSignal ==
  main.signalled
  => \A i \in Conns : conns[i].stage = "idle" => conns'[i].stage = "idle"

\* C17 (amended): after the signal no new request is accepted; the process
\* exits with status 0 only when no request is in flight any more, it exits
\* with status -2 only after the deadline of the grace period has passed,
\* with -2 whenever it abandons a request, with -1 only when it never
\* listened; a process that finds no request in flight at the signal exits
\* with 0 or, when it never listened, -1; and it always exits after the
\* signal.
C17_GracefulShutdown ==
  /\ [][NoAcceptAfterSignal]_vars
  /\ [](main.pc = "exited"
        => /\ main.exit \in {0, -1, -2}
           /\ main.exit = 0 => (main.signalled /\ InFlight = {})
           /\ main.exit = -2 => (main.signalled /\ main.ctxDone)
           /\ main.exit = -1 => ~ main.listening
           /\ InFlight # {} => main.exit = -2)
  /\ (main.signalled ~> main.pc = "exited")

C17_Witness ==
  /\ ExitedAfterSignal
  /\ main.exit = -2
  /\ late = {1} /\ InFlight = {1}
  /\ conns[1].stage = "awaiting"

\* a step taken when the context of the request has been cancelled ends the
\* handler: with the error of Do and no response, or with a response whose
\* body is closed; nothing more is sent to the backend
EndsAfterCancel ==
  pc = "cancelled"
  => /\ pc' = "done"
     /\ backend' = backend
     /\ \/ resp'.kind = "error" /\ respBody' = NoBody
        \/ resp'.kind = "aborted" /\ respBody'.closed

ClaimedRoute ==
  IF r.URL.Path = SeriesV1Path /\ flags.enableJsonFilter THEN "MetricsFilter"
  ELSE IF r.URL.Path = SeriesV2Path /\ flags.enableProtobufFilter
  THEN "MetricsProtobufFilter"
  ELSE "ProxyHandle"

\* C19 (as claimed): a request to /api/v1/series is handled by the JSON
\* filter route exactly when the JSON toggle is on, a request to
\* /api/v2/series by the binary filter route exactly when the binary toggle
\* is on, and every other request, a request to the path of a disabled
\* filter route included, by the passthrough route.
C19_DispatchFollowsToggles ==
  handler # "none" => handler = ClaimedRoute

\* connection i runs a filter handler that filters
FilteringConn(i) ==
  /\ conns[i].stage # "idle"
  /\ conns[i].handler \in {"MetricsFilter", "MetricsProtobufFilter"}

\* the handler of connection i failed to read or decode the body
DecodeFailedConn(i) ==
  conns[i].st.errKind \in {"read", "buffer", "parse", "decode"}

\* a sink call is made by a handler that has decoded and filtered the whole
\* body and has not built its outbound request yet
CountBeforeForward ==
  \A i \in Conns :
    Len(SinkCallsOf(i)') > Len(SinkCallsOf(i))
    => /\ conns[i].stage = "counting"
       /\ Len(SinkCallsOf(i)') = 1
       /\ SinkCallsOf(i)'[1].value
            = Run(conns[i].handler, conns[i].r).dropCount
       /\ conns[i].st.backend = <<>> /\ conns'[i].st.backend = <<>>
       /\ ~ conns'[i].st.panicked

\* C20: on a filter route with a prefix the drop count is emitted once the
\* body has been decoded and filtered and before the outbound request is
\* built; a handler that has built the outbound request, failed to build it
\* or got an error from the backend has emitted the count; a handler whose
\* reading or decoding failed never emits one.
C20_CountBeforeForwarding ==
  /\ [][CountBeforeForward]_vars
  /\ [](\A i \in Conns :
          FilteringConn(i)
          => /\ (\/ conns[i].st.backend # <<>>
                 \/ conns[i].st.panicked
                 \/ conns[i].st.errKind = "transport")
                  => Len(SinkCallsOf(i)) = 1
             /\ DecodeFailedConn(i) => SinkCallsOf(i) = <<>>)

C20_Witness ==
  /\ conns[1].stage = "done" /\ conns[1].handler = "MetricsProtobufFilter"
  /\ conns[1].st.panicked /\ conns[1].st.backend = <<>>
  /\ Len(SinkCallsOf(1)) = 1 /\ SinkCallsOf(1)[1].value = 2
  /\ conns[2].stage = "done" /\ conns[2].handler = "MetricsFilter"
  /\ DecodeFailedConn(2) /\ SinkCallsOf(2) = <<>>

\* the handler met an error of its own: reading, buffering, parsing or
\* decoding the body, or constructing the outbound request
LocalError ==
  errKind \in {"read", "buffer", "parse", "decode"} \/ ConstructionFailed

\* the status the claim gives to the outcome of the request in hand
ClaimedStatus ==
  IF LocalError THEN StatusInternalServerError
  ELSE IF resp.kind = "error" THEN StatusBadGateway
  ELSE resp.status

\* C21 (as claimed): a handler that is done has called WriteHeader exactly
\* once, with 500 after an error of its own, 502 after an error of
\* httpClient.Do and the backend's status otherwise; after an error status
\* the body is the error text of that error, and no byte of a backend
\* response.
C21_SingleStatusPerRequest ==
  Handled
  => /\ w.writeHeaderCalls = 1
     /\ w.status = ClaimedStatus
     /\ (LocalError \/ resp.kind = "error") => w.body = <<>>
     /\ LocalError <=> w.errText # ""

\* the series messages the sender wrote without a nested field 2
NoNameFields == {SeriesEmpty, SeriesNoName}

\* the message of a series field as the sender wrote it
MessageOf(f) == DecodeRawBytes(f.raw, 2).bytes

\* C22 (as claimed): on the binary filter route with a non-empty prefix the
\* name found in a series message is the value of its first nested field 2,
\* later ones are ignored; and a series message without a nested field 2 has
\* the empty name and is retained: a payload of such series is handed to the
\* backend as it was sent and nothing is counted as dropped.
C22_NameIsFirstFieldTwo ==
  (handler = "MetricsProtobufFilter" /\ cfg.MetricsPrefixFilter # <<>>
     /\ WellFormedPB(r) /\ urlOK(r))
  => /\ \A i \in 1..Len(r.items) :
          r.items[i].series
          => metricNameFrom(MessageOf(r.items[i]), 1)
               = [err |-> "", metricName |-> r.items[i].name]
     /\ (\A i \in 1..Len(r.items) : r.items[i] \in NoNameFields)
          => /\ Len(backend) = 1
             /\ backend[1].body = Frame(RawOf(r.items), r.framing)
             /\ dropCount = 0

\* the first Content-Encoding value of the request is one of the two tokens
TokenRecognised(req) ==
  HeaderGet(req.header, "Content-Encoding") \in {encodingGzip, encodingDeflate}

\* the same request without a Content-Encoding header
WithoutEncoding(req) ==
  [req EXCEPT !.header = [@ EXCEPT !["Content-Encoding"] = <<>>]]

\* C23: on a filter route with a non-empty prefix, a request whose first
\* Content-Encoding value is not exactly "gzip" or "deflate" is read and
\* answered as the same request without the header: its bytes are parsed as
\* they are, and what is handed to the backend is not compressed, so a
\* well-formed JSON payload sent plain goes out as the plain encoding of the
\* records kept; a first value that is exactly "gzip" selects the gzip
\* reader and writer whatever follows it.
C23_ExactEncodingToken ==
  (Filtering /\ pc = "done")
  => /\ ~ TokenRecognised(r)
          => LET plain == Run(handler, WithoutEncoding(r))
             IN  /\ errKind \in {plain.errKind, "transport"}
                 /\ dropCount = plain.dropCount
                 /\ Len(backend) = Len(plain.backend)
                 /\ \A i \in 1..Len(backend) :
                      backend[i].body = plain.backend[i].body
                 /\ (handler = "MetricsFilter" /\ r.kind = "json"
                       /\ r.damage = "none" /\ r.framing = "plain"
                       /\ urlOK(r))
                      => /\ Len(backend) = 1
                         /\ backend[1].body =
                              <<LBrace>>
                                \o encodeRecords(SelectSeq(r.items,
                                                           RetainedRecord))
                                \o <<RBrace, Newline>>
     /\ (HeaderGet(r.header, "Content-Encoding") = encodingGzip
           /\ r.framing = "gzip" /\ Decoded /\ urlOK(r))
          => /\ Len(backend) = 1
             /\ SubSeq(backend[1].body, 1, 2) = GzipMagic

C23_Witness ==
  /\ Filtering /\ pc = "done" /\ handler = "MetricsFilter"
  /\ DeclaredEncoding(r) = <<"GZIP">> /\ r.framing = "plain"
  /\ resp.kind = "response" /\ dropCount = 1
  /\ Len(backend) = 1 /\ Head(backend[1].body) = LBrace

\* response bodies shorter than, as long as and longer than what the
\* deferred function discards, read up to some point
BodyLengths ==
  {0, 1, maxHTTPResponseReadBytes, maxHTTPResponseReadBytes + 1,
   3 * maxHTTPResponseReadBytes}

BodyStates ==
  {Body(n, k) : n \in BodyLengths, k \in {0, 1, maxHTTPResponseReadBytes}}

\* C24: when httpClient.Do returned a response and the handler is done, the
\* response body has been closed exactly once, what the caller got is the
\* part of the body that was streamed, and at most 64 KiB of the rest were
\* read and discarded; the deferred function discards the rest of a body up
\* to 64 KiB and closes it once, whatever its length; when Do returned an
\* error, or was never called, no response body was read or closed.
C24_ResponseBodyClosedOnce ==
  /\ (pc = "done" /\ resp.kind \in {"response", "aborted"})
       => /\ respBody.closed /\ respBody.closeCalls = 1
          /\ respBody.len = Len(resp.body)
          /\ w.body = SubSeq(resp.body, 1, Len(w.body))
          /\ respBody.read >= Len(w.body)
          /\ respBody.read - Len(w.body) <= maxHTTPResponseReadBytes
  /\ (pc = "done" /\ resp.kind \in {"error", "none"}) => respBody = NoBody
  /\ \A rb \in {b \in BodyStates : b.read <= b.len} :
       LET end == discardAndClose(rb)
       IN  /\ end.closed /\ end.closeCalls = 1 /\ end.len = rb.len
           /\ end.read - rb.read <= maxHTTPResponseReadBytes
           /\ end.read = rb.len \/ end.read = rb.read + maxHTTPResponseReadBytes

C24_Witness ==
  /\ pc = "done" /\ resp.kind = "aborted"
  /\ respBody.closeCalls = 1 /\ respBody.closed
  /\ Len(w.body) < Len(resp.body)
  /\ respBody.read = Len(resp.body)

====
